---- MODULE Spec2Model ----
(***************************************************************************)
(* Model of kiss_slam/stub_odometry.py: the TUM trajectory reader, the     *)
(* StubOdometry pose lookup (_get_pose) and the per-frame registration     *)
(* (register_frame).                                                       *)
(*                                                                         *)
(* Numbers.  Timestamps are integers (the floats the tokens of the file    *)
(* parse to).  Translations are exact rationals <<n, d>>, d > 0, in lowest *)
(* terms, so that the interpolation fraction and the interpolated          *)
(* translation are computed, not approximated.                             *)
(*                                                                         *)
(* Poses.  A pose is a rigid transform of the subgroup of SE(3) generated  *)
(* by the rotations about Z by a multiple of 180 degrees and the           *)
(* translations along X: [rot |-> 0 or 1 (half turns), x |-> rational].    *)
(* The subgroup is not commutative, so the order of a composition shows.   *)
(***************************************************************************)
EXTENDS Integers, Sequences, FiniteSets, TLC

VARIABLES
    file,        \* the trajectory file: [exists, lines], a line is its text split into fields
    config,      \* config.mapping.voxel_size: "None" or a number
    pc,          \* "new" | "constructed" | "failed" (the constructor raised)
    trajectory,  \* self._trajectory: timestamp -> pose
    sortedTimes, \* self._sorted_trajectory_times
    last_pose,   \* self.last_pose
    local_map,   \* self.local_map: the sequence of update(points, pose) calls it received
    ret,         \* outcome of the last call: what it returned or raised
    old,         \* last_pose and local_map as they were before the last call
    done,        \* the frames of the register_frame calls that returned, in call order
    ncalls       \* number of register_frame calls made

vars == <<file, config, pc, trajectory, sortedTimes, last_pose, local_map,
          ret, old, done, ncalls>>

(***************************************************************************)
(* Bounds of the model.                                                    *)
(***************************************************************************)
MaxLines == 3   \* lines of a trajectory file
MaxStamp == 3   \* query stamps are 0..MaxStamp
MaxCalls == 2   \* register_frame calls per run

(***************************************************************************)
(* Exact rational arithmetic.                                              *)
(***************************************************************************)
Abs(n) == IF n < 0 THEN -n ELSE n

RECURSIVE Gcd(_, _)
Gcd(a, b) == IF b = 0 THEN a ELSE Gcd(b, a % b)

Rat(n, d) ==
    LET g == Gcd(Abs(n), Abs(d))
        s == IF d < 0 THEN -1 ELSE 1
    IN  <<(s * n) \div g, (s * d) \div g>>

RAdd(a, b) == Rat(a[1] * b[2] + b[1] * a[2], a[2] * b[2])
RNeg(a)    == <<-a[1], a[2]>>
RSub(a, b) == RAdd(a, RNeg(b))
RMul(a, b) == Rat(a[1] * b[1], a[2] * b[2])
RInt(n)    == <<n, 1>>

(***************************************************************************)
(* Rigid transforms (numpy 4x4 matrices in the source).                    *)
(***************************************************************************)
Sign(rot) == IF rot = 0 THEN 1 ELSE -1

\* np.eye(4)
Eye4 == [rot |-> 0, x |-> RInt(0)]

\* A @ B: first B, then A.  R_A R_B, t_A + R_A t_B.
MatMul(A, B) ==
    [rot |-> (A.rot + B.rot) % 2,
     x   |-> RAdd(A.x, RMul(RInt(Sign(A.rot)), B.x))]

\* np.linalg.inv(A): R^T, -R^T t.
Inv(A) == [rot |-> A.rot, x |-> RMul(RInt(-Sign(A.rot)), A.x)]

\* kiss_slam_pybind._interpolate_se3d(t, pose1, pose2): the translation is
\* interpolated linearly, the rotation by shortest-arc slerp.  Between two
\* equal rotations slerp is that rotation; the files of this model hold one
\* rotation each, so no other case is drawn.
Interpolate(t, pose1, pose2) ==
    [rot |-> pose1.rot,
     x   |-> RAdd(RMul(RSub(RInt(1), t), pose1.x), RMul(t, pose2.x))]

(***************************************************************************)
(* Outcomes of a call: it returns a value or raises an exception.          *)
(***************************************************************************)
Ok(v)    == [kind |-> "ok", value |-> v]
Raise(e) == [kind |-> "raise", exc |-> e]

(***************************************************************************)
(* Parsing.  float(token) of the tokens the model's files are made of.     *)
(***************************************************************************)
FloatTable ==
    [tok \in {"0", "1", "1.0", "2", "3"} |->
        CASE tok = "0"   -> 0
          [] tok = "1"   -> 1
          [] tok = "1.0" -> 1
          [] tok = "2"   -> 2
          [] tok = "3"   -> 3]

\* float(tok) raises ValueError on a token that is no number
IsFloat(tok) == tok \in DOMAIN FloatTable
Float(tok)   == FloatTable[tok]

\* R.from_quat(quaternion_xyzw).as_matrix() for a quaternion (0, 0, z, w):
\* scipy normalises it, and raises ValueError when its norm is zero.
\* w # 0, z = 0 is no rotation; w = 0, z # 0 is the half turn about Z.
QuatNormIsZero(q) == \A i \in 1..4 : q[i] = 0
FromQuat(q) == IF q[3] = 0 THEN 0 ELSE 1

\* create_transformation(translation, quaternion_xyzw)
create_transformation(translation, quaternion_xyzw) ==
    [rot |-> FromQuat(quaternion_xyzw), x |-> RInt(translation[1])]

(***************************************************************************)
(* read_tum_trajectory.  lines[i] is line.strip().split() of the i-th line *)
(* of the file.  The result is Ok(trajectory) or the exception raised.     *)
(***************************************************************************)
\* a store that keeps the entry a key already has
DictSetKeepFirst(d, k, v) == d @@ (k :> v)

\* the dict store  trajectory[timestamp] = pose
DictSet(d, k, v) == (k :> v) @@ d

EmptyDict == [k \in {} |-> Eye4]

RECURSIVE ReadLines(_, _, _)
ReadLines(lines, i, traj) ==
    IF i > Len(lines) THEN Ok(traj)
    ELSE LET parts == lines[i] IN
         IF Len(parts) = 8
         THEN IF \E j \in 1..8 : ~IsFloat(parts[j])
              THEN Raise("ValueError")
              ELSE LET timestamp       == Float(parts[1])
                       translation     == <<Float(parts[2]), Float(parts[3]), Float(parts[4])>>
                       quaternion_xyzw == <<Float(parts[5]), Float(parts[6]),
                                            Float(parts[7]), Float(parts[8])>>
                   IN  IF QuatNormIsZero(quaternion_xyzw)
                       THEN Raise("ValueError")
                       ELSE ReadLines(lines, i + 1,
                                DictSet(traj, timestamp,
                                    create_transformation(translation, quaternion_xyzw)))
         ELSE ReadLines(lines, i + 1, traj)

read_tum_trajectory(f) ==
    IF ~f.exists THEN Raise("AssertionError")
    ELSE ReadLines(f.lines, 1, EmptyDict)

\* sorted(keys)
SetMin(S) == CHOOSE m \in S : \A k \in S : m <= k

RECURSIVE Sorted(_)
Sorted(S) == IF S = {} THEN <<>> ELSE <<SetMin(S)>> \o Sorted(S \ {SetMin(S)})

(***************************************************************************)
(* _get_pose.  Python sequences are indexed from 0; an index out of range  *)
(* raises IndexError.                                                      *)
(***************************************************************************)
InRange(seq, idx) == -Len(seq) <= idx /\ idx < Len(seq)
PyAt(seq, idx)    == IF idx < 0 THEN seq[Len(seq) + idx + 1] ELSE seq[idx + 1]

\* bisect.bisect_left(a, x)
RECURSIVE BisectLoop(_, _, _, _)
BisectLoop(a, x, lo, hi) ==
    IF lo < hi
    THEN LET mid == (lo + hi) \div 2 IN
         IF PyAt(a, mid) < x THEN BisectLoop(a, x, mid + 1, hi)
                             ELSE BisectLoop(a, x, lo, mid)
    ELSE lo

\* a binary search that drops the middle element when it moves the upper end
RECURSIVE BisectLoopHiBug(_, _, _, _)
BisectLoopHiBug(a, x, lo, hi) ==
    IF lo < hi
    THEN LET mid == (lo + hi) \div 2 IN
         IF PyAt(a, mid) < x THEN BisectLoopHiBug(a, x, mid + 1, hi)
                             ELSE BisectLoopHiBug(a, x, lo, mid - 1)
    ELSE lo

bisect_left_hi_bug(a, x) == BisectLoopHiBug(a, x, 0, Len(a))

\* a search clamped to the last index
bisect_left_clamped(a, x) ==
    IF BisectLoop(a, x, 0, Len(a)) >= Len(a) /\ Len(a) > 0
    THEN Len(a) - 1
    ELSE BisectLoop(a, x, 0, Len(a))

bisect_left(a, x) == BisectLoop(a, x, 0, Len(a))

\* a membership test that never finds the key
HasStampNever(stamp) == FALSE

\* stamp in self._trajectory
HasStamp(stamp) == stamp \in DOMAIN trajectory

\* a fallback that clamps to the first sample
BeforeFirstPoseClamped == trajectory[sortedTimes[1]]

\* pose = np.eye(4), the pose of a stamp before the first sample
BeforeFirstPose == Eye4

_get_pose(stamp) ==
    LET traj  == trajectory
        times == sortedTimes
    IN
    IF HasStamp(stamp) THEN Ok(traj[stamp])
    ELSE IF ~InRange(times, 0) THEN Raise("IndexError")
    ELSE IF stamp < PyAt(times, 0) THEN Ok(BeforeFirstPose)
    ELSE LET upper_idx == bisect_left(times, stamp)
             lower_idx == upper_idx - 1
         IN  IF ~(lower_idx >= 0) THEN Raise("AssertionError")
             ELSE IF ~InRange(times, lower_idx) \/ ~InRange(times, upper_idx)
                  THEN Raise("IndexError")
             ELSE LET t1 == PyAt(times, lower_idx)
                      t2 == PyAt(times, upper_idx)
                  IN  IF ~(t1 < stamp /\ t2 > stamp) THEN Raise("AssertionError")
                      ELSE LET t == Rat(stamp - t1, t2 - t1)
                           IN  Ok(Interpolate(t, traj[t1], traj[t2]))

(***************************************************************************)
(* register_frame.  The kernels of kiss_icp are outside the repository:    *)
(* each is the record of what it was called with.                          *)
(***************************************************************************)
\* self.preprocessor.preprocess(frame, timestamps, motion_delta)
preprocess(frame, timestamps, motion_delta) ==
    [deskew |-> frame, timestamps |-> timestamps, motion |-> motion_delta]

\* voxel_down_sample(points, voxel_size)
voxel_down_sample(points, voxel_size) ==
    [downsample |-> points, voxel_size |-> voxel_size]

\* self.local_map.update(points, pose)
MapUpdate(map, points, pose) == Append(map, [points |-> points, pose |-> pose])

\* config.mapping.voxel_size: None or a number
None == <<>>
Half == Rat(1, 2)

\* min(timestamps), max(timestamps) of a non-empty sequence
SeqMin(q) == CHOOSE m \in {q[i] : i \in 1..Len(q)} : \A i \in 1..Len(q) : m <= q[i]
SeqMax(q) == CHOOSE m \in {q[i] : i \in 1..Len(q)} : \A i \in 1..Len(q) : m >= q[i]

\* a delta taken the other way round
MotionDeltaSwapped(min_stamp_pose, max_stamp_pose) ==
    MatMul(max_stamp_pose, Inv(min_stamp_pose))

\* motion_delta = np.linalg.inv(min_stamp_pose) @ max_stamp_pose
MotionDelta(min_stamp_pose, max_stamp_pose) ==
    MatMul(Inv(min_stamp_pose), max_stamp_pose)

\* a composition on the wrong side
NewPoseLeft(motion_delta) == MatMul(motion_delta, last_pose)

\* new_pose = self.last_pose @ motion_delta
NewPose(motion_delta) == MatMul(last_pose, motion_delta)

\* an update at the pose of the previous frame
UpdatePoseStale(new_pose) == last_pose

\* the pose self.local_map.update is given
UpdatePose(new_pose) == new_pose

\* an inverted check
VoxelSizeIsSetInverted == config.voxel_size = None

\* assert self.config.mapping.voxel_size is not None
VoxelSizeIsSet == config.voxel_size # None

\* The call's outcome and the state it leaves: [out, last_pose, local_map].
Left(out, pose, map) == [out |-> out, last_pose |-> pose, local_map |-> map]

\* a register_frame that moves last_pose to the start of the scan before it
\* looks up the end of the scan
register_frame_eager(frame, timestamps) ==
    IF Len(timestamps) = 0 THEN Left(Raise("ValueError"), last_pose, local_map)
    ELSE
    LET min_stamp_pose == _get_pose(SeqMin(timestamps))
        max_stamp_pose == _get_pose(SeqMax(timestamps))
    IN  IF min_stamp_pose.kind = "raise" THEN Left(min_stamp_pose, last_pose, local_map)
        ELSE
        LET at_start == MatMul(last_pose, Inv(min_stamp_pose.value)) IN
        IF max_stamp_pose.kind = "raise" THEN Left(max_stamp_pose, at_start, local_map)
        ELSE
        LET motion_delta   == MotionDelta(min_stamp_pose.value, max_stamp_pose.value)
            deskewed_frame == preprocess(frame, timestamps, motion_delta)
            new_pose       == MatMul(at_start, max_stamp_pose.value)
        IN  IF ~VoxelSizeIsSet
            THEN Left(Raise("AssertionError"), at_start, local_map)
            ELSE Left(Ok(<<deskewed_frame, None>>),
                      new_pose,
                      MapUpdate(local_map,
                                voxel_down_sample(deskewed_frame,
                                                  RMul(config.voxel_size, Half)),
                                new_pose))

register_frame(frame, timestamps) ==
    IF Len(timestamps) = 0 THEN Left(Raise("ValueError"), last_pose, local_map)
    ELSE
    LET min_stamp      == SeqMin(timestamps)
        max_stamp      == SeqMax(timestamps)
        min_stamp_pose == _get_pose(min_stamp)
        max_stamp_pose == _get_pose(max_stamp)
    IN  IF min_stamp_pose.kind = "raise" THEN Left(min_stamp_pose, last_pose, local_map)
        ELSE IF max_stamp_pose.kind = "raise" THEN Left(max_stamp_pose, last_pose, local_map)
        ELSE
        LET motion_delta   == MotionDelta(min_stamp_pose.value, max_stamp_pose.value)
            deskewed_frame == preprocess(frame, timestamps, motion_delta)
        IN  IF ~VoxelSizeIsSet
            THEN Left(Raise("AssertionError"), last_pose, local_map)
            ELSE IF config.voxel_size = None      \* None * 0.5
            THEN Left(Raise("TypeError"), last_pose, local_map)
            ELSE
            LET frame_downsample == voxel_down_sample(deskewed_frame,
                                                      RMul(config.voxel_size, Half))
                new_pose         == NewPose(motion_delta)
            IN  Left(Ok(<<deskewed_frame, None>>),
                     new_pose,
                     MapUpdate(local_map, frame_downsample, UpdatePose(new_pose)))

(***************************************************************************)
(* Inputs.  A line is the sequence of its whitespace-separated fields.     *)
(***************************************************************************)
QuatTokens == { <<"0", "0", "0", "1">>,     \* identity
                <<"0", "0", "0", "2">>,     \* identity, not normalised
                <<"0", "0", "1", "0">>,     \* half turn about Z
                <<"0", "0", "0", "0">> }    \* zero norm

SampleLine(ts, tx, q) == <<ts, tx, "0", "0">> \o q

StoreLines(q) ==
    { SampleLine(ts, tx, q) : ts \in {"0", "1", "1.0", "3"}, tx \in {"0", "2"} }
    \cup { SampleLine("abc", "0", q),                 \* 8 fields, the first no number
           << >>,                                     \* a blank line
           <<"1", "2", "0", "0", "0">>,               \* 5 fields
           SampleLine("1", "2", q) \o <<"0">>,        \* 9 fields
           <<"#", "t", "x", "y", "z", "q", "w">> }    \* 7 fields, none a number

RegLines(q) == { SampleLine("0", "0", q), SampleLine("1", "2", q), SampleLine("3", "3", q) }

\* files written in time order, as a recorder writes them
Ascending(ls) == \A i, j \in 1..Len(ls) : i < j => Float(ls[i][1]) < Float(ls[j][1])

Stamps == 0..MaxStamp

\* the per-point timestamps of a frame: none, one or two points, in any order
FrameTimestamps == { << >> } \cup { <<a>> : a \in Stamps } \cup { <<a, b>> : a, b \in Stamps }

Configs == { [voxel_size |-> None], [voxel_size |-> RInt(1)] }

(***************************************************************************)
(* The state machine.                                                      *)
(***************************************************************************)
NoCall == [op |-> "none"]

InitWith(f, c) ==
    /\ file = f
    /\ config = c
    /\ pc = "new"
    /\ trajectory = EmptyDict
    /\ sortedTimes = << >>
    /\ last_pose = Eye4
    /\ local_map = << >>
    /\ ret = NoCall
    /\ old = [last_pose |-> Eye4, local_map |-> << >>]
    /\ done = << >>
    /\ ncalls = 0

\* register_frame runs: a file of up to MaxLines samples in time order, all
\* with one rotation, and either configuration
Init ==
    \E q \in { <<"0", "0", "0", "1">>, <<"0", "0", "1", "0">> }, n \in 0..MaxLines :
        \E ls \in [1..n -> RegLines(q)], c \in Configs :
            /\ Ascending(ls)
            /\ InitWith([exists |-> TRUE, lines |-> ls], c)

\* lookup runs: no file, or a file of up to MaxLines lines of any kind in any order
InitStore ==
    \/ InitWith([exists |-> FALSE, lines |-> << >>], [voxel_size |-> RInt(1)])
    \/ \E q \in QuatTokens, n \in 0..MaxLines :
           \E ls \in [1..n -> StoreLines(q)] :
               InitWith([exists |-> TRUE, lines |-> ls], [voxel_size |-> RInt(1)])

\* StubOdometry.__init__(config, trajectory_fp)
Construct ==
    /\ pc = "new"
    /\ LET read == read_tum_trajectory(file) IN
       /\ pc' = IF read.kind = "ok" THEN "constructed" ELSE "failed"
       /\ trajectory' = IF read.kind = "ok" THEN read.value ELSE trajectory
       /\ sortedTimes' = IF read.kind = "ok" THEN Sorted(DOMAIN read.value) ELSE sortedTimes
       /\ ret' = [op |-> "__init__",
                  out |-> IF read.kind = "ok" THEN Ok(None) ELSE read]
    /\ last_pose' = Eye4
    /\ local_map' = << >>
    /\ old' = [last_pose |-> last_pose, local_map |-> local_map]
    /\ UNCHANGED <<file, config, done, ncalls>>

\* a call of _get_pose(stamp) on the constructed object
GetPose ==
    /\ pc = "constructed"
    /\ \E stamp \in Stamps :
         ret' = [op |-> "_get_pose", stamp |-> stamp, out |-> _get_pose(stamp)]
    /\ old' = [last_pose |-> last_pose, local_map |-> local_map]
    /\ UNCHANGED <<file, config, pc, trajectory, sortedTimes, last_pose, local_map,
                   done, ncalls>>

\* a call of register_frame(frame, timestamps); the caller's k-th frame is frame k
RegisterFrame ==
    /\ pc = "constructed"
    /\ ncalls < MaxCalls
    /\ \E timestamps \in FrameTimestamps :
         LET frame == ncalls + 1
             left  == register_frame(frame, timestamps)
         IN  /\ ret' = [op |-> "register_frame", frame |-> frame,
                        timestamps |-> timestamps, out |-> left.out]
             /\ last_pose' = left.last_pose
             /\ local_map' = left.local_map
             /\ done' = IF left.out.kind = "ok"
                        THEN Append(done, [frame |-> frame, timestamps |-> timestamps])
                        ELSE done
    /\ old' = [last_pose |-> last_pose, local_map |-> local_map]
    /\ ncalls' = ncalls + 1
    /\ UNCHANGED <<file, config, pc, trajectory, sortedTimes>>

Next == Construct \/ RegisterFrame

NextStore == Construct \/ GetPose

Spec == Init /\ [][Next]_vars

SpecStore == InitStore /\ [][NextStore]_vars

(***************************************************************************)
(* What the claims speak of.                                               *)
(***************************************************************************)
Stored == DOMAIN trajectory

Smallest == CHOOSE m \in Stored : \A k \in Stored : m <= k
Largest  == CHOOSE m \in Stored : \A k \in Stored : m >= k

Looked == ret.op = "_get_pose"

Registered == ret.op = "register_frame"

\* the greatest stored timestamp below, the least stored timestamp above
Below(stamp) == CHOOSE m \in Stored : m < stamp /\ \A k \in Stored : k < stamp => k <= m
Above(stamp) == CHOOSE m \in Stored : m > stamp /\ \A k \in Stored : k > stamp => m <= k

\* the lines of the file that are samples, and the sample a line holds
IsSample(i)    == Len(file.lines[i]) = 8
SampleStamp(i) == Float(file.lines[i][1])
SamplePose(i)  == [rot |-> IF file.lines[i][7] = "0" THEN 0 ELSE 1,
                   x   |-> <<Float(file.lines[i][2]), 1>>]
SampleReads(i) == /\ \A j \in 1..8 : IsFloat(file.lines[i][j])
                  /\ \E j \in 5..8 : file.lines[i][j] # "0"
LastSampleOf(ts) ==
    CHOOSE i \in 1..Len(file.lines) :
        /\ IsSample(i) /\ SampleStamp(i) = ts
        /\ \A j \in 1..Len(file.lines) : (IsSample(j) /\ SampleStamp(j) = ts) => j <= i

\* the motion of a frame with these timestamps: from the pose at its
\* earliest timestamp to the pose at its latest one
Earliest(ts) == CHOOSE m \in {ts[i] : i \in 1..Len(ts)} : \A i \in 1..Len(ts) : m <= ts[i]
Latest(ts)   == CHOOSE m \in {ts[i] : i \in 1..Len(ts)} : \A i \in 1..Len(ts) : m >= ts[i]
LookupsOk(ts) == /\ Len(ts) > 0
                 /\ _get_pose(Earliest(ts)).kind = "ok"
                 /\ _get_pose(Latest(ts)).kind = "ok"
DeltaOf(ts)  == MatMul(Inv(_get_pose(Earliest(ts)).value), _get_pose(Latest(ts)).value)

\* the composition, left to right, of the motions of the first i frames that returned
RECURSIVE PoseAfter(_)
PoseAfter(i) == IF i = 0 THEN Eye4
                ELSE MatMul(PoseAfter(i - 1), DeltaOf(done[i].timestamps))

(***************************************************************************)
(* C1.  A lookup at a stored timestamp returns exactly the pose stored for *)
(* it, the pose of the last sample line of the file with that timestamp,   *)
(* whether the timestamp is the smallest, the largest or one in between.   *)
(***************************************************************************)
C1_ExactMatch ==
    (Looked /\ ret.stamp \in Stored) =>
        /\ ret.out = Ok(trajectory[ret.stamp])
        /\ ret.out.value = SamplePose(LastSampleOf(ret.stamp))

C1_Witness ==
    /\ Looked /\ Cardinality(Stored) >= 2 /\ ret.stamp = Largest
    /\ ret.out.kind = "ok" /\ ret.out.value # Eye4

(***************************************************************************)
(* C2.  A lookup at a stamp that is not stored and lies strictly between   *)
(* the smallest and the largest stored timestamp returns the interpolation *)
(* of the poses of its two stored neighbours t1 < stamp < t2 at the        *)
(* fraction (stamp - t1) / (t2 - t1), which is strictly between 0 and 1;   *)
(* and no lookup at all fails an assertion.                                *)
(***************************************************************************)
C2_Bracket ==
    Looked =>
        /\ (ret.out.kind = "raise" => ret.out.exc # "AssertionError")
        /\ (Stored # {} /\ ret.stamp \notin Stored
              /\ Smallest < ret.stamp /\ ret.stamp < Largest) =>
             LET t1 == Below(ret.stamp)
                 t2 == Above(ret.stamp)
                 t  == Rat(ret.stamp - t1, t2 - t1)
             IN  /\ t1 < ret.stamp /\ ret.stamp < t2
                 /\ ~ \E k \in Stored : t1 < k /\ k < t2
                 /\ 0 < t[1] /\ t[1] < t[2]
                 /\ ret.out = Ok(Interpolate(t, trajectory[t1], trajectory[t2]))
                 \* the translation is the linear one
                 /\ ret.out.value.x[1] * (t2 - t1) =
                      ret.out.value.x[2] * (trajectory[t1].x[1] * (t2 - ret.stamp)
                                            + trajectory[t2].x[1] * (ret.stamp - t1))

C2_Witness ==
    /\ Looked /\ Cardinality(Stored) = 3 /\ ret.stamp \notin Stored
    /\ Smallest < ret.stamp /\ ret.stamp < Largest
    /\ Below(ret.stamp) # Smallest
    /\ ret.out.kind = "ok"
    /\ ret.out.value # trajectory[Below(ret.stamp)]
    /\ ret.out.value # trajectory[Above(ret.stamp)]

(***************************************************************************)
(* C3.  A lookup at a stamp below the smallest stored timestamp of a       *)
(* trajectory with at least one sample returns the identity and raises     *)
(* nothing.                                                                *)
(***************************************************************************)
C3_LowerFallback ==
    (Looked /\ Stored # {} /\ ret.stamp < Smallest) => ret.out = Ok(Eye4)

C3_Witness ==
    /\ Looked /\ Stored # {} /\ ret.stamp < Smallest
    /\ ret.out.kind = "ok" /\ trajectory[Smallest] # Eye4

(***************************************************************************)
(* C4.  As claimed: a lookup at a stamp greater than or equal to the       *)
(* largest stored timestamp returns no pose.                               *)
(***************************************************************************)
C4_Original ==
    (Looked /\ Stored # {} /\ ret.stamp >= Largest) => ret.out.kind = "raise"

(***************************************************************************)
(* C4, amended.  A lookup at a stamp strictly greater than the largest     *)
(* stored timestamp returns no pose: it raises IndexError.  A lookup at    *)
(* the largest stored timestamp itself returns the pose stored for it.     *)
(***************************************************************************)
C4_UpperBound ==
    (Looked /\ Stored # {}) =>
        /\ (ret.stamp > Largest => ret.out = Raise("IndexError"))
        /\ (ret.stamp = Largest => ret.out = Ok(trajectory[Largest]))

C4_Witness ==
    /\ Looked /\ Cardinality(Stored) >= 2 /\ ret.stamp > Largest
    /\ ret.out.kind = "raise"

(***************************************************************************)
(* C5.  As claimed: the construction fails when the file does not exist    *)
(* and when the file holds no line of 8 fields, so that no object with an  *)
(* empty trajectory is ever constructed.                                   *)
(***************************************************************************)
C5_LoadFails ==
    /\ (pc # "new" /\ (~file.exists \/ \A i \in 1..Len(file.lines) : ~IsSample(i)))
          => pc = "failed"
    /\ (pc = "constructed" => Stored # {})

(***************************************************************************)
(* C6.  last_pose is the identity after construction; a register_frame     *)
(* that returns sets it to its value before the call composed on the right *)
(* with inverse(lookup(min(timestamps))) o lookup(max(timestamps)); so it  *)
(* always equals the composition, in call order, of the motion deltas of   *)
(* the frames processed.                                                   *)
(***************************************************************************)
C6_LastPose ==
    /\ (ret.op = "__init__" => last_pose = Eye4)
    /\ (Registered /\ ret.out.kind = "ok") =>
          /\ LookupsOk(ret.timestamps)
          /\ ret.out.value[1].motion = DeltaOf(ret.timestamps)
          /\ last_pose = MatMul(old.last_pose, DeltaOf(ret.timestamps))
    /\ last_pose = PoseAfter(Len(done))

\* two frames processed whose motions do not commute
C6_Witness ==
    /\ Registered /\ ret.out.kind = "ok" /\ Len(done) = 2
    /\ MatMul(DeltaOf(done[1].timestamps), DeltaOf(done[2].timestamps))
         # MatMul(DeltaOf(done[2].timestamps), DeltaOf(done[1].timestamps))
    /\ DeltaOf(done[2].timestamps)
         # MatMul(_get_pose(Latest(done[2].timestamps)).value,
                  Inv(_get_pose(Earliest(done[2].timestamps)).value))

(***************************************************************************)
(* C7.  Every register_frame that returns has updated the map exactly      *)
(* once, with the downsampled deskewed points of its frame and the pose    *)
(* last_pose holds after the call; the map has received one update per     *)
(* frame processed, in the order the caller supplied the frames.           *)
(***************************************************************************)
C7_MapUpdates ==
    /\ Len(local_map) = Len(done)
    /\ \A i \in 1..Len(done) :
          /\ local_map[i].pose = PoseAfter(i)
          /\ local_map[i].points =
                voxel_down_sample(
                    preprocess(done[i].frame, done[i].timestamps,
                               DeltaOf(done[i].timestamps)),
                    RMul(config.voxel_size, <<1, 2>>))
    /\ \A i, j \in 1..Len(done) : i < j => done[i].frame < done[j].frame
    /\ (Registered /\ ret.out.kind = "ok") =>
          /\ Len(local_map) = Len(old.local_map) + 1
          /\ SubSeq(local_map, 1, Len(old.local_map)) = old.local_map
          /\ local_map[Len(local_map)].pose = last_pose
          /\ local_map[Len(local_map)].points.downsample = ret.out.value[1]

\* a second frame processed, which moved the pose
C7_Witness ==
    /\ Registered /\ ret.out.kind = "ok" /\ Len(local_map) = 2
    /\ last_pose # old.last_pose
    /\ old.last_pose # Eye4

(***************************************************************************)
(* C8.  The loaded trajectory holds exactly the timestamps of the lines of *)
(* 8 fields; a line of any other length adds nothing and raises nothing;   *)
(* of several lines with one timestamp the last one gives the pose.        *)
(***************************************************************************)
C8_Load ==
    /\ (pc = "constructed") =>
          /\ Stored = { SampleStamp(i) : i \in { j \in 1..Len(file.lines) : IsSample(j) } }
          /\ \A ts \in Stored : trajectory[ts] = SamplePose(LastSampleOf(ts))
          /\ sortedTimes = Sorted(Stored)
    /\ (pc = "failed" /\ file.exists) =>
          \E i \in 1..Len(file.lines) : IsSample(i) /\ ~SampleReads(i)
    /\ (pc # "new" /\ file.exists
          /\ \A i \in 1..Len(file.lines) : IsSample(i) => SampleReads(i))
          => pc = "constructed"

\* a line of 5 fields skipped, and a timestamp given twice with two poses
C8_Witness ==
    /\ pc = "constructed"
    /\ \E i \in 1..Len(file.lines) : Len(file.lines[i]) = 5
    /\ \E i, j \in 1..Len(file.lines) :
          /\ i < j /\ IsSample(i) /\ IsSample(j)
          /\ SampleStamp(i) = SampleStamp(j)
          /\ file.lines[i][1] # file.lines[j][1]
          /\ SamplePose(i) # SamplePose(j)

(***************************************************************************)
(* C9.  As claimed: a register_frame raises only when one of its two       *)
(* lookups raises, for every frame, one without timestamps included, and   *)
(* every configuration.                                                    *)
(***************************************************************************)
C9_Original ==
    (Registered /\ ret.out.kind = "raise") =>
        /\ Len(ret.timestamps) > 0
        /\ \/ _get_pose(Earliest(ret.timestamps)).kind = "raise"
           \/ _get_pose(Latest(ret.timestamps)).kind = "raise"

(***************************************************************************)
(* C9, amended.  A register_frame on a frame with at least one timestamp,  *)
(* under a configuration whose voxel size is set, raises only when one of  *)
(* its two lookups raises, and then raises what that lookup raised; when   *)
(* both succeed it returns and advances last_pose.  A frame without        *)
(* timestamps raises ValueError, and a configuration without a voxel size  *)
(* raises AssertionError once both lookups have succeeded.                 *)
(***************************************************************************)
C9_Failures ==
    Registered =>
        LET ts == ret.timestamps IN
        /\ Len(ts) = 0 => ret.out = Raise("ValueError")
        /\ (LookupsOk(ts) /\ config.voxel_size # None) =>
              /\ ret.out.kind = "ok"
              /\ ret.out.value[2] = None
              /\ last_pose = MatMul(old.last_pose, DeltaOf(ts))
        /\ (LookupsOk(ts) /\ config.voxel_size = None) =>
              ret.out = Raise("AssertionError")
        /\ (Len(ts) > 0 /\ ~LookupsOk(ts)) =>
              ret.out = IF _get_pose(Earliest(ts)).kind = "raise"
                        THEN _get_pose(Earliest(ts))
                        ELSE _get_pose(Latest(ts))

C9_Witness ==
    /\ Registered /\ Len(ret.timestamps) = 2 /\ LookupsOk(ret.timestamps)
    /\ config.voxel_size # None
    /\ ret.out.kind = "ok" /\ last_pose # old.last_pose

(***************************************************************************)
(* C10.  A register_frame that fails in a lookup leaves last_pose and the  *)
(* map as they were before the call: no update is issued and the pose is   *)
(* not advanced.                                                           *)
(***************************************************************************)
C10_FailedLookupKeepsState ==
    (Registered /\ Len(ret.timestamps) > 0 /\ ~LookupsOk(ret.timestamps)) =>
        /\ ret.out.kind = "raise"
        /\ last_pose = old.last_pose
        /\ local_map = old.local_map
        /\ last_pose = PoseAfter(Len(done))

\* the second call fails at the end of the scan, after a first that moved the pose
C10_Witness ==
    /\ Registered /\ ncalls = 2 /\ Len(done) = 1
    /\ Len(ret.timestamps) > 0
    /\ _get_pose(Earliest(ret.timestamps)).kind = "ok"
    /\ _get_pose(Earliest(ret.timestamps)).value # Eye4
    /\ _get_pose(Latest(ret.timestamps)).kind = "raise"
    /\ last_pose # Eye4

====
